---- MODULE Spec2Model ----
(***************************************************************************)
(* A model of src/predict.py: the text helpers (detect_language,           *)
(* escape_drawtext, wrap_text_simple), the audio mix planner (mix_audio),  *)
(* the video filter graph builder (add_branding_and_meme_text) and the     *)
(* request handler Predictor.predict with its scratch directory.           *)
(*                                                                         *)
(* A Python str is a sequence of code points (ord of each character).      *)
(***************************************************************************)
EXTENDS Integers, Sequences, FiniteSets, TLC

VARIABLES
    call,    \* a helper under test: the function and its arguments
    ret,     \* what that call returned or raised
    clock,   \* int(time.time())
    fonts,   \* the scripts whose font file is on disk
    dirs,    \* the directories that exist under TEMP_DIR
    files,   \* the files that exist under TEMP_DIR, each with its last writer
    pc,      \* where each request of Predictor.predict stands
    inp,     \* the arguments of each request
    loc      \* the local variables of each request

vars == <<call, ret, clock, fonts, dirs, files, pc, inp, loc>>

helperVars == <<call, ret>>

predictVars == <<clock, fonts, dirs, files, pc, inp, loc>>

(***************************************************************************)
(* Characters the code names.                                              *)
(***************************************************************************)
SP == 32
NL == 10
Backslash == 92
Quote == 39
Colon == 58
LBracket == 91
RBracket == 93
Comma == 44
Semicolon == 59
LetterN == 110

\* str.strip() with no argument strips whitespace; the ASCII whitespace of Python.
WhiteSpace == {9, 10, 11, 12, 13, 28, 29, 30, 31, 32}

\* None, where the code holds a path or None.
None == <<>>

(***************************************************************************)
(* Python str operations used by the helpers.                              *)
(***************************************************************************)
\* The k-th smallest element of a finite set of integers.
Kth(S, k) == CHOOSE x \in S : Cardinality({y \in S : y <= x}) = k

\* s.split(sep) for a one-character separator: the pieces between the
\* separators, never an empty list.
Split(s, sep) ==
    LET at == {i \in 1..Len(s) : s[i] = sep}
        n == Cardinality(at)
        cut(k) == IF k = 0 THEN 0 ELSE IF k = n + 1 THEN Len(s) + 1 ELSE Kth(at, k)
    IN [k \in 1..(n + 1) |-> SubSeq(s, cut(k - 1) + 1, cut(k) - 1)]

RECURSIVE Join(_, _)
\* sep.join(parts)
Join(parts, sep) ==
    IF parts = <<>> THEN <<>>
    ELSE IF Len(parts) = 1 THEN parts[1]
    ELSE parts[1] \o <<sep>> \o Join(Tail(parts), sep)

RECURSIVE LStrip(_, _)
LStrip(s, drop) ==
    IF s # <<>> /\ Head(s) \in drop THEN LStrip(Tail(s), drop) ELSE s

RECURSIVE RStrip(_, _)
RStrip(s, drop) ==
    IF s # <<>> /\ s[Len(s)] \in drop
    THEN RStrip(SubSeq(s, 1, Len(s) - 1), drop) ELSE s

\* s.strip(chars)
StripChars(s, drop) == RStrip(LStrip(s, drop), drop)

\* s.strip()
Strip(s) == StripChars(s, WhiteSpace)

RECURSIVE Replace(_, _, _)
\* s.replace(c, rep) for a one-character c (halving keeps the recursion shallow).
Replace(s, c, rep) ==
    IF s = <<>> THEN <<>>
    ELSE IF Len(s) = 1 THEN (IF s[1] = c THEN rep ELSE s)
    ELSE LET mid == Len(s) \div 2
         IN Replace(SubSeq(s, 1, mid), c, rep)
            \o Replace(SubSeq(s, mid + 1, Len(s)), c, rep)

(***************************************************************************)
(* detect_language: the first character that falls in one of the script    *)
(* ranges decides; a character in no range is skipped.                     *)
(***************************************************************************)
ScriptOfChar(code) ==
    IF (\h4E00 <= code /\ code <= \h9FFF) \/ (\h3400 <= code /\ code <= \h4DBF)
    THEN "chinese"
    ELSE IF (\h3040 <= code /\ code <= \h309F) \/ (\h30A0 <= code /\ code <= \h30FF)
    THEN "japanese"
    ELSE IF \hAC00 <= code /\ code <= \hD7AF THEN "korean"
    ELSE IF \h0E00 <= code /\ code <= \h0E7F THEN "thai"
    ELSE IF \h0B80 <= code /\ code <= \h0BFF THEN "tamil"
    ELSE IF \h0980 <= code /\ code <= \h09FF THEN "bengali"
    ELSE IF \h0600 <= code /\ code <= \h06FF THEN "arabic"
    ELSE "none"

RECURSIVE FirstScript(_, _, _)
\* The loop "for ch in text": the script of the first character of
\* text[lo..hi] that lies in a range, "none" when the loop falls through
\* (halving keeps the recursion shallow).
FirstScript(text, lo, hi) ==
    IF lo > hi THEN "none"
    ELSE IF lo = hi THEN ScriptOfChar(text[lo])
    ELSE LET mid == (lo + hi) \div 2
             left == FirstScript(text, lo, mid)
         IN IF left # "none" THEN left ELSE FirstScript(text, mid + 1, hi)

ScanScripts(text) ==
    IF FirstScript(text, 1, Len(text)) = "none" THEN "english"
    ELSE FirstScript(text, 1, Len(text))

\* A plausible slip: only the first character is looked at.
detect_language_first_char(text) ==
    IF text = <<>> \/ ScriptOfChar(Head(text)) = "none" THEN "english"
    ELSE ScriptOfChar(Head(text))

detect_language(text) ==
    IF text = <<>> THEN "english" ELSE ScanScripts(text)

\* FONTS: the scripts that have a font asset.
FONTS == {"english", "chinese", "japanese", "korean", "arabic", "bengali",
          "tamil", "thai", "tagalog"}

\* font_for_text: the font of the detected script if its file exists
\* (present: the scripts whose font file is on disk), else the English font.
font_for_text(text, present) ==
    LET lang == detect_language(text)
        fp == IF lang \in FONTS THEN lang ELSE "english"
    IN IF fp \in present THEN fp ELSE "english"

(***************************************************************************)
(* escape_drawtext: the replacements, in the order of the code.            *)
(***************************************************************************)
escape_drawtext(text) ==
    IF text = <<>> THEN <<>>
    ELSE LET s1 == Replace(text, Backslash, <<Backslash, Backslash>>)
             s2 == Replace(s1, Quote, <<Backslash, Backslash, Quote>>)
             s3 == Replace(s2, Colon, <<Backslash, Colon>>)
             s4 == Replace(s3, LBracket, <<Backslash, LBracket>>)
             s5 == Replace(s4, RBracket, <<Backslash, RBracket>>)
             s6 == Replace(s5, Comma, <<Backslash, Comma>>)
             s7 == Replace(s6, Semicolon, <<Backslash, Semicolon>>)
         IN Replace(s7, NL, <<Backslash, LetterN>>)

(***************************************************************************)
(* wrap_text_simple                                                        *)
(***************************************************************************)
RECURSIVE Chunks(_, _)
\* [text[i:i+max_chars] for i in range(0, len(text), max_chars)]
Chunks(text, max_chars) ==
    IF text = <<>> THEN <<>>
    ELSE IF Len(text) <= max_chars THEN <<text>>
    ELSE <<SubSeq(text, 1, max_chars)>>
         \o Chunks(SubSeq(text, max_chars + 1, Len(text)), max_chars)

RECURSIVE WrapWords(_, _, _, _)
\* The loop over words: cur is the line being filled, lines the closed ones.
WrapWords(words, max_chars, cur, lines) ==
    IF words = <<>> THEN (IF cur # <<>> THEN Append(lines, cur) ELSE lines)
    ELSE LET w == Head(words)
             test == IF cur # <<>> THEN Strip(cur \o <<SP>> \o w) ELSE w
         IN IF Len(test) > max_chars /\ cur # <<>>
            THEN WrapWords(Tail(words), max_chars, w, Append(lines, cur))
            ELSE WrapWords(Tail(words), max_chars, test, lines)

wrap_text_simple(text, max_chars) ==
    IF text = <<>> THEN <<>>
    ELSE LET words == Split(text, SP)
         IN IF Len(words) <= 1
            THEN Join(Chunks(text, max_chars), NL)
            ELSE Join(WrapWords(words, max_chars, <<>>, <<>>), NL)

(***************************************************************************)
(* add_branding_and_meme_text: the video filter graph.  A node is one      *)
(* filter of filter_complex: its input label, the filter, its font, its    *)
(* (escaped) text, its horizontal placement and its output label.          *)
(***************************************************************************)
MemeMaxChars == 35

\* "luna.fun/memes/"
BRAND_PREFIX == <<108, 117, 110, 97, 46, 102, 117, 110, 47, 109, 101, 109, 101, 115, 47>>

InV == <<"0:v">>
OutV == <<"outv">>
VLabel(i) == <<"v", i>>

DrawText(cur, font, text, x, nxt) ==
    [in |-> cur, filter |-> "drawtext", fontfile |-> font, text |-> text,
     x |-> x, out |-> nxt]

NullNode(cur, nxt) ==
    [in |-> cur, filter |-> "null", fontfile |-> "", text |-> <<>>,
     x |-> "", out |-> nxt]

\* [ln for ln in wrapped.split("\n") if ln.strip()]
NonBlankLines(wrapped) ==
    SelectSeq(Split(wrapped, NL), LAMBDA ln : Strip(ln) # <<>>)

\* A plausible slip: the counter is not advanced.
NextLabelIdx_stuck(label_idx) == label_idx

\* label_idx += 1
NextLabelIdx(label_idx) == label_idx + 1

RECURSIVE DrawLines(_, _, _)
\* The loop over the lines of one text block; st is (parts, cur, label_idx).
DrawLines(lines, font, st) ==
    IF lines = <<>> THEN st
    ELSE LET nxt == VLabel(st.label_idx)
         IN DrawLines(Tail(lines), font,
                [parts |-> Append(st.parts,
                              DrawText(st.cur, font, escape_drawtext(Head(lines)),
                                       "(w-text_w)/2", nxt)),
                 cur |-> nxt,
                 label_idx |-> NextLabelIdx(st.label_idx)])

\* A plausible slip: with branding off nothing closes the chain.
BrandingNodes_no_terminal(st, include_branding, project_name, proj_font) ==
    IF include_branding
    THEN LET nxt == VLabel(st.label_idx)
             p1 == Append(st.parts,
                       DrawText(st.cur, "english", escape_drawtext(BRAND_PREFIX),
                                "brand_x", nxt))
         IN IF Strip(project_name) # <<>>
            THEN Append(p1, DrawText(nxt, proj_font, escape_drawtext(project_name),
                                     "proj_x", OutV))
            ELSE Append(p1, NullNode(nxt, OutV))
    ELSE st.parts

\* The branding branch: it always ends the chain in [outv].
BrandingNodes(st, include_branding, project_name, proj_font) ==
    IF include_branding
    THEN LET nxt == VLabel(st.label_idx)
             p1 == Append(st.parts,
                       DrawText(st.cur, "english", escape_drawtext(BRAND_PREFIX),
                                "brand_x", nxt))
         IN IF Strip(project_name) # <<>>
            THEN Append(p1, DrawText(nxt, proj_font, escape_drawtext(project_name),
                                     "proj_x", OutV))
            ELSE Append(p1, NullNode(nxt, OutV))
    ELSE Append(st.parts, NullNode(st.cur, OutV))

\* parts, as add_branding_and_meme_text builds it (present: the font files on disk).
FilterParts(project_name, top_text, bottom_text, include_branding, present) ==
    LET meme_font == font_for_text(top_text \o <<SP>> \o bottom_text, present)
        proj_font == font_for_text(project_name, present)
        top_wrapped == wrap_text_simple(top_text, MemeMaxChars)
        bot_wrapped == wrap_text_simple(bottom_text, MemeMaxChars)
        s0 == [parts |-> <<>>, cur |-> InV, label_idx |-> 1]
        s1 == IF Strip(top_text) # <<>>
              THEN DrawLines(NonBlankLines(top_wrapped), meme_font, s0) ELSE s0
        s2 == IF Strip(bottom_text) # <<>>
              THEN DrawLines(NonBlankLines(bot_wrapped), meme_font, s1) ELSE s1
    IN BrandingNodes(s2, include_branding, project_name, proj_font)

(***************************************************************************)
(* mix_audio: the audio filter graph.  A node is one chain of              *)
(* filter_complex: its input labels, its filters, its output label and,    *)
(* for amix, the options of the mix.                                       *)
(***************************************************************************)
\* [idx:a]
InputLabel(idx) == <<"0:a", "1:a", "2:a">>[idx + 1]

AudioNode(ins, filters, out) ==
    [ins |-> ins, filters |-> filters, out |-> out,
     inputs |-> 0, duration |-> "", dropout_transition |-> ""]

AMixNode(mix_labels) ==
    [ins |-> mix_labels, filters |-> <<"amix">>, out |-> "outa",
     inputs |-> Len(mix_labels), duration |-> "longest", dropout_transition |-> "0"]

NoPlan == [mode |-> "none", inputs |-> <<>>, filter_parts |-> <<>>, mix_labels |-> <<>>]

\* run(["ffmpeg", "-y", "-i", video_in, "-c", "copy", out])
CopyPlan(video_in) ==
    [mode |-> "copy", inputs |-> <<video_in>>, filter_parts |-> <<>>,
     mix_labels |-> <<>>]

\* A plausible slip: the original audio is taken as a source without the probe.
OrigPart_unprobed(has_audio) ==
    [filter_parts |-> <<AudioNode(<<InputLabel(0)>>, <<"aformat">>, "orig")>>,
     mix_labels |-> <<"orig">>]

\* if has_audio_stream(video_in): the original audio is a source.
OrigPart(has_audio) ==
    IF has_audio
    THEN [filter_parts |-> <<AudioNode(<<InputLabel(0)>>, <<"aformat">>, "orig")>>,
          mix_labels |-> <<"orig">>]
    ELSE [filter_parts |-> <<>>, mix_labels |-> <<>>]

\* The filter graph mix_audio builds once dialogue or music is given;
\* has_audio is what has_audio_stream(video_in) returned.
MixPlan(video_in, dialogue, music, has_audio) ==
    LET o == OrigPart(has_audio)
        d == IF dialogue # None
             THEN [inputs |-> <<video_in, dialogue>>,
                   filter_parts |-> Append(o.filter_parts,
                       AudioNode(<<InputLabel(1)>>, <<"aformat">>, "dlg")),
                   mix_labels |-> Append(o.mix_labels, "dlg"),
                   idx |-> 2]
             ELSE [inputs |-> <<video_in>>, filter_parts |-> o.filter_parts,
                   mix_labels |-> o.mix_labels, idx |-> 1]
        m == IF music # None
             THEN [inputs |-> Append(d.inputs, music),
                   filter_parts |-> Append(d.filter_parts,
                       AudioNode(<<InputLabel(d.idx)>>,
                                 <<"atrim", "volume", "aformat">>, "msc")),
                   mix_labels |-> Append(d.mix_labels, "msc")]
             ELSE [inputs |-> d.inputs, filter_parts |-> d.filter_parts,
                   mix_labels |-> d.mix_labels]
    IN IF Len(m.mix_labels) = 0 THEN CopyPlan(video_in)
       ELSE [mode |-> "filter",
             inputs |-> m.inputs,
             filter_parts |->
                 Append(m.filter_parts,
                     IF Len(m.mix_labels) = 1
                     THEN AudioNode(<<m.mix_labels[1]>>, <<"anull">>, "outa")
                     ELSE AMixNode(m.mix_labels)),
             mix_labels |-> m.mix_labels]

(***************************************************************************)
(* safe_slug                                                               *)
(***************************************************************************)
SlugMax == 80

\* "clipforge"
Fallback == <<99, 108, 105, 112, 102, 111, 114, 103, 101>>

\* [a-zA-Z0-9._-]
SlugChars == (48..57) \cup (65..90) \cup (97..122) \cup {45, 46, 95}

\* re.sub(r"\s+", "-", s): every run of whitespace becomes one dash.
DashRuns(s) ==
    LET starts == {i \in 1..Len(s) :
                      s[i] \in WhiteSpace /\ (i = 1 \/ s[i - 1] \notin WhiteSpace)}
        kept == {i \in 1..Len(s) : s[i] \notin WhiteSpace \/ i \in starts}
    IN [k \in 1..Cardinality(kept) |->
            IF s[Kth(kept, k)] \in WhiteSpace THEN 45 ELSE s[Kth(kept, k)]]

safe_slug(meme_id) ==
    LET s0 == Strip(meme_id)
        s1 == DashRuns(s0)
        s2 == SelectSeq(s1, LAMBDA c : c \in SlugChars)
        s3 == StripChars(s2, {46, 95, 45})
    IN IF s0 = <<>> THEN Fallback
       ELSE IF s3 = <<>> THEN Fallback
       ELSE SubSeq(s3, 1, IF Len(s3) < SlugMax THEN Len(s3) ELSE SlugMax)

(***************************************************************************)
(* Predictor.predict, one step per external call (a download, a probe, a   *)
(* run of ffmpeg).  The files of a request live in its scratch directory   *)
(* work = TEMP_DIR / f"{safe_slug(meme_id)}_{int(time.time())}"; a file is *)
(* named by what follows the directory.                                    *)
(***************************************************************************)
Reqs == {1, 2}

NoRequest ==
    [final_stitch_video |-> <<>>, final_stitched_video |-> <<>>,
     scene1_url |-> <<>>, scene2_url |-> <<>>, scene3_url |-> <<>>,
     final_dialogue |-> <<>>, final_music_url |-> <<>>,
     meme_top_text |-> <<>>, meme_bottom_text |-> <<>>,
     meme_project_name |-> <<>>, include_branding |-> FALSE,
     meme_id |-> <<>>, max_duration_seconds |-> 0]

NoMix == [called |-> FALSE, video_in |-> None, dialogue |-> None, music |-> None,
          out |-> None]

NoLocals ==
    [work |-> <<>>, use_stitch |-> FALSE, dialogue_p |-> None, music_p |-> None,
     s1 |-> None, s2 |-> None, s3 |-> None, video_p |-> None, base |-> None,
     reencoded |-> 0, has_audio |-> FALSE, mix |-> NoMix, plan |-> NoPlan,
     graph |-> <<>>, probes |-> 0, engine |-> 0, outcome |-> "", result |-> None]

WriteFile(fs, dir, name, r) ==
    {f \in fs : ~(f.dir = dir /\ f.name = name)}
        \cup {[dir |-> dir, name |-> name, by |-> r]}

Unlink(fs, dir, names) == {f \in fs : ~(f.dir = dir /\ f.name \in names)}

Raise(r, l, error) ==
    /\ loc' = [loc EXCEPT ![r] = [l EXCEPT !.outcome = error]]
    /\ pc' = [pc EXCEPT ![r] = "raised"]

\* The entry of mix_audio(video_in, dialogue, music, out): a stream copy when
\* neither track is given, else the probes and the filter graph.
EnterMix(r, l, video_in, dialogue, music, out) ==
    LET m == [called |-> TRUE, video_in |-> video_in, dialogue |-> dialogue,
              music |-> music, out |-> out]
    IN IF dialogue = None /\ music = None
       THEN /\ loc' = [loc EXCEPT ![r] =
                          [l EXCEPT !.mix = m, !.plan = CopyPlan(video_in)]]
            /\ pc' = [pc EXCEPT ![r] = "mix_copy"]
       ELSE /\ loc' = [loc EXCEPT ![r] = [l EXCEPT !.mix = m]]
            /\ pc' = [pc EXCEPT ![r] = "mix_duration"]

\* The font check, req_id, work.mkdir and use_stitch.
Start(r, requests) ==
    /\ pc[r] = "idle"
    /\ \E q \in requests :
        /\ inp' = [inp EXCEPT ![r] = q]
        /\ IF "english" \notin fonts
           THEN /\ Raise(r, loc[r], "RuntimeError: Missing font")
                /\ UNCHANGED dirs
           ELSE LET work == <<safe_slug(q.meme_id), clock>>
                IN /\ dirs' = dirs \cup {work}
                   /\ loc' = [loc EXCEPT ![r] =
                                 [@ EXCEPT !.work = work,
                                           !.use_stitch = /\ q.scene1_url # <<>>
                                                          /\ q.scene2_url # <<>>
                                                          /\ q.scene3_url # <<>>]]
                   /\ pc' = [pc EXCEPT ![r] = "dl_dialogue"]
    /\ UNCHANGED <<call, ret, clock, fonts, files>>

\* dl_if(url, name, default_ext) at step `at`, its result kept in `field`.
\* A failed download may leave a partial or empty file behind.
DlIf(r, at, url, name, field, next) ==
    /\ pc[r] = at
    /\ IF Strip(url) = <<>>
       THEN /\ loc' = [loc EXCEPT ![r][field] = None]
            /\ pc' = [pc EXCEPT ![r] = next]
            /\ UNCHANGED files
       ELSE \E res \in {"ok", "failed", "failed, file left"} :
            /\ files' = IF res = "failed" THEN files
                        ELSE WriteFile(files, loc[r].work, name, r)
            /\ IF res = "ok"
               THEN /\ loc' = [loc EXCEPT ![r][field] = name]
                    /\ pc' = [pc EXCEPT ![r] = next]
               ELSE Raise(r, loc[r], "download failed")
    /\ UNCHANGED <<call, ret, clock, fonts, dirs, inp>>

DlDialogue(r) ==
    DlIf(r, "dl_dialogue", inp[r].final_dialogue, <<"dialogue">>, "dialogue_p",
         "dl_music")

DlMusic(r) ==
    DlIf(r, "dl_music", inp[r].final_music_url, <<"music">>, "music_p",
         IF loc[r].use_stitch THEN "dl_scene1" ELSE "check_src")

DlScene1(r) ==
    DlIf(r, "dl_scene1", inp[r].scene1_url, <<"scene1">>, "s1", "dl_scene2")

DlScene2(r) ==
    DlIf(r, "dl_scene2", inp[r].scene2_url, <<"scene2">>, "s2", "dl_scene3")

DlScene3(r) ==
    DlIf(r, "dl_scene3", inp[r].scene3_url, <<"scene3">>, "s3", "check_scenes")

\* A plausible slip: the scenes are not checked before they are joined.
CheckScenes_unchecked(r) ==
    /\ pc[r] = "check_scenes"
    /\ pc' = [pc EXCEPT ![r] = "reencode"]
    /\ UNCHANGED <<call, ret, clock, fonts, dirs, files, inp, loc>>

\* if not (s1 and s2 and s3): raise ValueError
CheckScenes(r) ==
    /\ pc[r] = "check_scenes"
    /\ IF loc[r].s1 = None \/ loc[r].s2 = None \/ loc[r].s3 = None
       THEN Raise(r, loc[r], "ValueError")
       ELSE /\ pc' = [pc EXCEPT ![r] = "reencode"]
            /\ UNCHANGED loc
    /\ UNCHANGED <<call, ret, clock, fonts, dirs, files, inp>>

RecName(i) == <<<<"rec_0.mp4">>, <<"rec_1.mp4">>, <<"rec_2.mp4">>>>[i + 1]

\* concat_videos, the loop: scene i is re-encoded to rec_i.mp4.
Reencode(r) ==
    /\ pc[r] = "reencode"
    /\ LET l == [loc[r] EXCEPT !.engine = @ + 1]
       IN \E ok \in BOOLEAN :
            IF ok
            THEN /\ files' = WriteFile(files, l.work, RecName(l.reencoded), r)
                 /\ loc' = [loc EXCEPT ![r] = [l EXCEPT !.reencoded = @ + 1]]
                 /\ pc' = [pc EXCEPT ![r] =
                              IF l.reencoded + 1 = 3 THEN "concat" ELSE "reencode"]
            ELSE /\ Raise(r, l, "RuntimeError: Command failed")
                 /\ UNCHANGED files
    /\ UNCHANGED <<call, ret, clock, fonts, dirs, inp>>

\* concat_videos, the join: the list is written, the clips are joined into
\* stitched.mp4 and the temporaries are unlinked; then predict calls
\* mix_audio(stitched, None, music_p, base).
ConcatJoin(r) ==
    /\ pc[r] = "concat"
    /\ LET l == [loc[r] EXCEPT !.engine = @ + 1]
           listed == WriteFile(files, l.work, <<"concat_list.txt">>, r)
       IN \E ok \in BOOLEAN, audio \in BOOLEAN :
            IF ok
            THEN /\ files' = Unlink(WriteFile(listed, l.work, <<"stitched.mp4">>, r),
                                    l.work,
                                    {RecName(0), RecName(1), RecName(2),
                                     <<"concat_list.txt">>})
                 /\ EnterMix(r, [l EXCEPT !.has_audio = audio],
                             <<"stitched.mp4">>, None, l.music_p, <<"base.mp4">>)
            ELSE /\ audio
                 /\ files' = listed
                 /\ Raise(r, l, "RuntimeError: Command failed")
    /\ UNCHANGED <<call, ret, clock, fonts, dirs, inp>>

\* src_url = final_stitch_video or final_stitched_video
SrcUrl(q) ==
    IF q.final_stitch_video # <<>> THEN q.final_stitch_video
    ELSE q.final_stitched_video

\* if not src_url.strip(): raise ValueError
CheckSrc(r) ==
    /\ pc[r] = "check_src"
    /\ IF Strip(SrcUrl(inp[r])) = <<>>
       THEN Raise(r, loc[r], "ValueError")
       ELSE /\ pc' = [pc EXCEPT ![r] = "dl_video"]
            /\ UNCHANGED loc
    /\ UNCHANGED <<call, ret, clock, fonts, dirs, files, inp>>

DlVideo(r) ==
    DlIf(r, "dl_video", SrcUrl(inp[r]), <<"video">>, "video_p", "check_video")

\* if not video_p: raise RuntimeError("Failed to download video")
CheckVideo(r) ==
    /\ pc[r] = "check_video"
    /\ IF loc[r].video_p = None
       THEN Raise(r, loc[r], "RuntimeError: Failed to download video")
       ELSE /\ pc' = [pc EXCEPT ![r] = "trim"]
            /\ UNCHANGED loc
    /\ UNCHANGED <<call, ret, clock, fonts, dirs, files, inp>>

\* The base clip: a stream copy of the video, cut to max_duration_seconds
\* when that is set; then mix_audio when a track was downloaded.
Trim(r) ==
    /\ pc[r] = "trim"
    /\ LET l == [loc[r] EXCEPT !.engine = @ + 1]
       IN \E ok \in BOOLEAN, audio \in BOOLEAN :
            IF ok
            THEN /\ files' = WriteFile(files, l.work, <<"base.mp4">>, r)
                 /\ LET b == [l EXCEPT !.base = <<"base.mp4">>, !.has_audio = audio]
                    IN IF l.dialogue_p # None \/ l.music_p # None
                       THEN EnterMix(r, b, <<"base.mp4">>, l.dialogue_p, l.music_p,
                                     <<"mixed.mp4">>)
                       ELSE /\ loc' = [loc EXCEPT ![r] = b]
                            /\ pc' = [pc EXCEPT ![r] = "probe_dims"]
            ELSE /\ audio
                 /\ Raise(r, l, "RuntimeError: Command failed")
                 /\ UNCHANGED files
    /\ UNCHANGED <<call, ret, clock, fonts, dirs, inp>>

\* mix_audio without tracks: a stream copy of video_in.
MixCopy(r) ==
    /\ pc[r] = "mix_copy"
    /\ LET l == [loc[r] EXCEPT !.engine = @ + 1]
       IN \E ok \in BOOLEAN :
            IF ok
            THEN /\ files' = WriteFile(files, l.work, l.mix.out, r)
                 /\ loc' = [loc EXCEPT ![r] = [l EXCEPT !.base = l.mix.out]]
                 /\ pc' = [pc EXCEPT ![r] = "probe_dims"]
            ELSE /\ Raise(r, l, "RuntimeError: Command failed")
                 /\ UNCHANGED files
    /\ UNCHANGED <<call, ret, clock, fonts, dirs, inp>>

\* duration = get_duration(video_in)
MixDuration(r) ==
    /\ pc[r] = "mix_duration"
    /\ LET l == [loc[r] EXCEPT !.probes = @ + 1]
       IN \E ok \in BOOLEAN :
            IF ok
            THEN /\ loc' = [loc EXCEPT ![r] = l]
                 /\ pc' = [pc EXCEPT ![r] = "mix_has_audio"]
            ELSE Raise(r, l, "RuntimeError: ffprobe failed")
    /\ UNCHANGED <<call, ret, clock, fonts, dirs, files, inp>>

\* has_audio_stream(video_in), and the filter graph built from its answer.
MixHasAudio(r) ==
    /\ pc[r] = "mix_has_audio"
    /\ LET l == [loc[r] EXCEPT !.probes = @ + 1]
       IN \E ok \in BOOLEAN :
            IF ok
            THEN /\ loc' = [loc EXCEPT ![r] =
                               [l EXCEPT !.plan = MixPlan(l.mix.video_in,
                                                     l.mix.dialogue, l.mix.music,
                                                     l.has_audio)]]
                 /\ pc' = [pc EXCEPT ![r] = "mix_run"]
            ELSE Raise(r, l, "RuntimeError: ffprobe failed")
    /\ UNCHANGED <<call, ret, clock, fonts, dirs, files, inp>>

\* run(["ffmpeg", ..., "-filter_complex", filter_complex, ..., out])
MixRun(r) ==
    /\ pc[r] = "mix_run"
    /\ LET l == [loc[r] EXCEPT !.engine = @ + 1]
       IN \E ok \in BOOLEAN :
            IF ok
            THEN /\ files' = WriteFile(files, l.work, l.mix.out, r)
                 /\ loc' = [loc EXCEPT ![r] = [l EXCEPT !.base = l.mix.out]]
                 /\ pc' = [pc EXCEPT ![r] = "probe_dims"]
            ELSE /\ Raise(r, l, "RuntimeError: Command failed")
                 /\ UNCHANGED files
    /\ UNCHANGED <<call, ret, clock, fonts, dirs, inp>>

\* out_dir.mkdir, then add_branding_and_meme_text: get_video_dims and the
\* video filter graph.
ProbeDims(r) ==
    /\ pc[r] = "probe_dims"
    /\ dirs' = dirs \cup {Append(loc[r].work, "outputs")}
    /\ LET l == [loc[r] EXCEPT !.probes = @ + 1]
       IN \E ok \in BOOLEAN :
            IF ok
            THEN /\ loc' = [loc EXCEPT ![r] =
                               [l EXCEPT !.graph =
                                   FilterParts(inp[r].meme_project_name,
                                       inp[r].meme_top_text, inp[r].meme_bottom_text,
                                       inp[r].include_branding, fonts)]]
                 /\ pc' = [pc EXCEPT ![r] = "render_run"]
            ELSE Raise(r, l, "RuntimeError: ffprobe failed")
    /\ UNCHANGED <<call, ret, clock, fonts, files, inp>>

FinalOut(q) == <<"outputs", safe_slug(q.meme_id), ".mp4">>

ZipPath(q) == <<"", safe_slug(q.meme_id), "_pack.zip">>

\* add_branding_and_meme_text: run(["ffmpeg", ..., final_out])
RenderRun(r) ==
    /\ pc[r] = "render_run"
    /\ LET l == [loc[r] EXCEPT !.engine = @ + 1]
       IN \E ok \in BOOLEAN :
            IF ok
            THEN /\ files' = WriteFile(files, l.work, FinalOut(inp[r]), r)
                 /\ loc' = [loc EXCEPT ![r] = l]
                 /\ pc' = [pc EXCEPT ![r] = "package"]
            ELSE /\ Raise(r, l, "RuntimeError: Command failed")
                 /\ UNCHANGED files
    /\ UNCHANGED <<call, ret, clock, fonts, dirs, inp>>

\* metadata.json and the zip are written; predict returns the zip's path.
Package(r) ==
    /\ pc[r] = "package"
    /\ files' = WriteFile(WriteFile(files, loc[r].work,
                                    <<"outputs", <<>>, "metadata.json">>, r),
                          loc[r].work, ZipPath(inp[r]), r)
    /\ loc' = [loc EXCEPT ![r] = [@ EXCEPT !.outcome = "ok",
                                           !.result = ZipPath(inp[r])]]
    /\ pc' = [pc EXCEPT ![r] = "returned"]
    /\ UNCHANGED <<call, ret, clock, fonts, dirs, inp>>

\* A second of wall-clock time passes.
MaxClock == 1

Tick ==
    /\ clock < MaxClock
    /\ clock' = clock + 1
    /\ UNCHANGED <<call, ret, fonts, dirs, files, pc, inp, loc>>

Done(r) == pc[r] \in {"returned", "raised"}

(***************************************************************************)
(* Bounded inputs of the helpers.                                          *)
(***************************************************************************)
MaxWrapLen == 4
MaxWrapChars == 3
MaxEscLen == 3
MaxLangLen == 3

SeqsUpTo(S, n) == UNION {[1..k -> S] : k \in 0..n}

\* The letter a, a space and a line feed.
WrapAlphabet == {97, SP, NL}
EscAlphabet == {Backslash, Quote, Colon, LBracket, NL, LetterN}
\* H, space, a Chinese, a kana, a Hangul and an Arabic character.
LangAlphabet == {72, SP, \h4F60, \h3042, \hD55C, \h0627}

Pending == [state |-> "pending"]

NoCall == [fn |-> "none"]

\* The handler at rest, with every font in place: the helpers' specifications.
PredictIdle ==
    /\ clock = 0
    /\ fonts = FONTS
    /\ dirs = {}
    /\ files = {}
    /\ pc = [r \in Reqs |-> "idle"]
    /\ inp = [r \in Reqs |-> NoRequest]
    /\ loc = [r \in Reqs |-> NoLocals]

Returned(v) == [state |-> "returned", value |-> v]

Raised(e) == [state |-> "raised", error |-> e]

(***************************************************************************)
(* wrap_text_simple applied to every bounded text and limit.               *)
(***************************************************************************)
InitWrap ==
    /\ call \in {[fn |-> "wrap_text_simple", text |-> t, max_chars |-> m] :
                    t \in SeqsUpTo(WrapAlphabet, MaxWrapLen), m \in 1..MaxWrapChars}
    /\ ret = Pending
    /\ PredictIdle

CallWrap ==
    /\ call.fn = "wrap_text_simple"
    /\ ret = Pending
    /\ ret' = Returned(wrap_text_simple(call.text, call.max_chars))
    /\ UNCHANGED <<call, predictVars>>

SpecWrap == InitWrap /\ [][CallWrap]_vars

(***************************************************************************)
(* escape_drawtext applied to every bounded text.                          *)
(***************************************************************************)
InitEscape ==
    /\ call \in {[fn |-> "escape_drawtext", text |-> t] :
                    t \in SeqsUpTo(EscAlphabet, MaxEscLen)}
    /\ ret = Pending
    /\ PredictIdle

CallEscape ==
    /\ call.fn = "escape_drawtext"
    /\ ret = Pending
    /\ ret' = Returned(escape_drawtext(call.text))
    /\ UNCHANGED <<call, predictVars>>

SpecEscape == InitEscape /\ [][CallEscape]_vars

(***************************************************************************)
(* detect_language applied to every bounded text.                          *)
(***************************************************************************)
InitLang ==
    /\ call \in {[fn |-> "detect_language", text |-> t] :
                    t \in SeqsUpTo(LangAlphabet, MaxLangLen)}
    /\ ret = Pending
    /\ PredictIdle

CallLang ==
    /\ call.fn = "detect_language"
    /\ ret = Pending
    /\ ret' = Returned(detect_language(call.text))
    /\ UNCHANGED <<call, predictVars>>

SpecLang == InitLang /\ [][CallLang]_vars

(***************************************************************************)
(* add_branding_and_meme_text applied to bounded requests: the top and the *)
(* bottom text hold up to MaxWords words between them, joined by spaces,   *)
(* some long enough to wrap.                                               *)
(***************************************************************************)
MaxWords == 3

Rep(c, n) == [i \in 1..n |-> c]

\* An empty word (a doubled space), a short word, a half-line word, a word
\* longer than a line and a line break.
GraphWords == {Rep(97, 0), Rep(97, 1), Rep(97, 18), Rep(97, 36),
               <<NL>>}

GraphTexts(n) == {Join(ws, SP) : ws \in [1..n -> GraphWords]}

\* No project, a blank one, and a Hangul character followed by a colon.
GraphProjects == {<<>>, <<SP>>, <<\hD55C, Colon>>}

\* The (top, bottom) pairs of at most n words in all.
GraphTextPairs(n) ==
    UNION {GraphTexts(i) \X UNION {GraphTexts(j) : j \in 0..(n - i)} : i \in 0..n}

InitGraph ==
    /\ call \in {[fn |-> "add_branding_and_meme_text", project_name |-> p,
                  top_text |-> tb[1], bottom_text |-> tb[2],
                  include_branding |-> br, present |-> fs] :
                    p \in GraphProjects, tb \in GraphTextPairs(MaxWords),
                    br \in BOOLEAN, fs \in {FONTS, {"english"}}}
    /\ ret = Pending
    /\ PredictIdle

\* get_video_dims raises: no graph is built.
GraphProbeFails ==
    /\ call.fn = "add_branding_and_meme_text"
    /\ ret = Pending
    /\ ret' = Raised("ffprobe failed")
    /\ UNCHANGED <<call, predictVars>>

\* The probe succeeds and filter_complex is built.
GraphBuild ==
    /\ call.fn = "add_branding_and_meme_text"
    /\ ret = Pending
    /\ ret' = [state |-> "built",
               filter_complex |-> FilterParts(call.project_name, call.top_text,
                                      call.bottom_text, call.include_branding,
                                      call.present)]
    /\ UNCHANGED <<call, predictVars>>

\* run(ffmpeg ... -filter_complex ...): it succeeds or raises.
GraphRun ==
    /\ call.fn = "add_branding_and_meme_text"
    /\ ret.state = "built"
    /\ \E ok \in BOOLEAN :
        ret' = [ret EXCEPT !.state = IF ok THEN "returned" ELSE "raised"]
    /\ UNCHANGED <<call, predictVars>>

\* The states in which the graph of the call exists.
GraphBuilt ==
    /\ call.fn = "add_branding_and_meme_text"
    /\ ret.state \in {"built", "returned", "raised"}
    /\ "filter_complex" \in DOMAIN ret

SpecGraph == InitGraph /\ [][GraphProbeFails \/ GraphBuild \/ GraphRun]_vars

(***************************************************************************)
(* Predictor.predict: one request, over every combination of empty, blank  *)
(* and real URLs.                                                          *)
(***************************************************************************)
Url == <<117>>

UrlValues == {<<>>, <<SP>>, Url}

\* (top, bottom, project, branding) of the requests of the handler.
RenderPresets ==
    {<<<<>>, <<>>, <<>>, FALSE>>,
     <<Rep(97, 18) \o <<SP>> \o Rep(97, 18), <<97>>, <<97>>, TRUE>>}

MaxDuration == 120

MakeRequest(main, alias, s1, s2, s3, d, m, tx, id, t) ==
    [final_stitch_video |-> main, final_stitched_video |-> alias,
     scene1_url |-> s1, scene2_url |-> s2, scene3_url |-> s3,
     final_dialogue |-> d, final_music_url |-> m,
     meme_top_text |-> tx[1], meme_bottom_text |-> tx[2],
     meme_project_name |-> tx[3], include_branding |-> tx[4],
     meme_id |-> id, max_duration_seconds |-> t]

Requests ==
    {MakeRequest(main, alias, s1, s2, s3, d, m, tx, <<97>>, t) :
        main \in UrlValues, alias \in {<<>>, Url},
        s1 \in UrlValues, s2 \in UrlValues, s3 \in UrlValues,
        d \in UrlValues, m \in UrlValues,
        tx \in RenderPresets, t \in {0, MaxDuration}}

Init ==
    /\ call = NoCall
    /\ ret = Pending
    /\ clock = 0
    /\ fonts \in {FONTS, FONTS \ {"english"}}
    /\ dirs = {}
    /\ files = {}
    /\ pc = [r \in Reqs |-> "idle"]
    /\ inp = [r \in Reqs |-> NoRequest]
    /\ loc = [r \in Reqs |-> NoLocals]

Step(r) ==
    \/ DlDialogue(r) \/ DlMusic(r)
    \/ DlScene1(r) \/ DlScene2(r) \/ DlScene3(r) \/ CheckScenes(r)
    \/ Reencode(r) \/ ConcatJoin(r)
    \/ CheckSrc(r) \/ DlVideo(r) \/ CheckVideo(r) \/ Trim(r)
    \/ MixCopy(r) \/ MixDuration(r) \/ MixHasAudio(r) \/ MixRun(r)
    \/ ProbeDims(r) \/ RenderRun(r) \/ Package(r)

Next == Start(1, Requests) \/ Step(1)

Spec == Init /\ [][Next]_vars

(***************************************************************************)
(* Two requests at once, while the clock runs.                             *)
(***************************************************************************)
MaxIdLen == 1

\* a and space: "", "a" and " " give the slugs clipforge, a and clipforge.
IdAlphabet == {97, SP}

\* A single clip with a dialogue track, and three scenes without music.
ConcRequests ==
    {MakeRequest(Url, <<>>, <<>>, <<>>, <<>>, Url, <<>>,
                 <<<<>>, <<>>, <<>>, FALSE>>, id, 0) :
        id \in SeqsUpTo(IdAlphabet, MaxIdLen)}
    \cup
    {MakeRequest(<<>>, <<>>, Url, Url, Url, <<>>, <<>>,
                 <<<<>>, <<>>, <<>>, FALSE>>, id, 0) :
        id \in SeqsUpTo(IdAlphabet, MaxIdLen)}

NextConc == Tick \/ \E r \in Reqs : Start(r, ConcRequests) \/ Step(r)

SpecConc == Init /\ [][NextConc]_vars

(***************************************************************************)
(* C3 (as claimed): no line returned by wrap_text_simple is longer than    *)
(* max_chars, a long token being hard-split also when it is one word among *)
(* several.  The code hard-splits only a text that holds no space at all.  *)
(***************************************************************************)
WrappedLines(wrapped) == IF wrapped = <<>> THEN <<>> ELSE Split(wrapped, NL)

C3_NoLineExceedsLimit ==
    (call.fn = "wrap_text_simple" /\ ret.state = "returned") =>
        \A i \in 1..Len(WrappedLines(ret.value)) :
            Len(WrappedLines(ret.value)[i]) <= call.max_chars

(***************************************************************************)
(* C4 (as claimed): the output of escape_drawtext holds no unescaped       *)
(* metacharacter, and removing one level of escaping gives the text back.  *)
(***************************************************************************)
Metachars == {Quote, Colon, LBracket, RBracket, Comma, Semicolon}

RECURSIVE HasUnescapedMeta(_)
\* Left to right: a backslash escapes the character after it.
HasUnescapedMeta(s) ==
    IF s = <<>> THEN FALSE
    ELSE IF Head(s) = Backslash
    THEN (IF Len(s) >= 2 THEN HasUnescapedMeta(SubSeq(s, 3, Len(s))) ELSE FALSE)
    ELSE IF Head(s) \in Metachars THEN TRUE
    ELSE HasUnescapedMeta(Tail(s))

RECURSIVE Unescape(_)
\* One level of escaping removed; backslash-n is the line-break token.
Unescape(s) ==
    IF s = <<>> THEN <<>>
    ELSE IF Head(s) = Backslash /\ Len(s) >= 2
    THEN <<IF s[2] = LetterN THEN NL ELSE s[2]>> \o Unescape(SubSeq(s, 3, Len(s)))
    ELSE <<Head(s)>> \o Unescape(Tail(s))

C4_EscapedAndDecodable ==
    (call.fn = "escape_drawtext" /\ ret.state = "returned") =>
        /\ ~HasUnescapedMeta(ret.value)
        /\ Unescape(ret.value) = call.text

(***************************************************************************)
(* C5 (as claimed): the character that comes first in the text decides, so *)
(* a text that starts with a Latin character resolves to English.          *)
(***************************************************************************)
C5_FirstCharacterDecides ==
    (call.fn = "detect_language" /\ ret.state = "returned" /\ call.text # <<>>) =>
        ret.value = (IF ScriptOfChar(call.text[1]) = "none" THEN "english"
                     ELSE ScriptOfChar(call.text[1]))

(***************************************************************************)
(* C5 (amended): detect_language resolves to the script of the earliest    *)
(* character that lies in one of the script ranges, whatever unclassified  *)
(* (Latin) characters come before it, and to English when the text is      *)
(* empty or no character lies in a range.                                  *)
(***************************************************************************)
C5_FirstClassifiedCharacterDecides ==
    (call.fn = "detect_language" /\ ret.state = "returned") =>
        LET hits == {i \in 1..Len(call.text) : ScriptOfChar(call.text[i]) # "none"}
        IN IF hits = {} THEN ret.value = "english"
           ELSE \E i \in hits :
                    /\ \A j \in hits : i <= j
                    /\ ret.value = ScriptOfChar(call.text[i])

\* A text that starts with Latin characters and resolves to Chinese.
C5_Witness ==
    /\ call.fn = "detect_language" /\ ret.state = "returned"
    /\ Len(call.text) >= 3
    /\ call.text[1] = 72 /\ call.text[2] = SP
    /\ ret.value = "chinese"

(***************************************************************************)
(* C1: in every graph add_branding_and_meme_text builds, the output labels *)
(* are as many as the nodes, and every node reads [0:v] or the output of a *)
(* node before it (no forward reference, no self reference, no reuse),     *)
(* whichever of the optional branches are skipped.                         *)
(***************************************************************************)
C1_LabelsDistinctAndBackward ==
    GraphBuilt =>
        LET g == ret.filter_complex
        IN /\ Cardinality({g[i].out : i \in 1..Len(g)}) = Len(g)
           /\ \A i \in 1..Len(g) :
                \/ g[i].in = InV
                \/ \E j \in 1..(i - 1) : g[j].out = g[i].in

\* The top text is skipped, the bottom text wraps to two lines or more, and
\* branding is drawn without a project name.
C1_Witness ==
    /\ GraphBuilt
    /\ Strip(call.top_text) = <<>>
    /\ Len(NonBlankLines(wrap_text_simple(call.bottom_text, MemeMaxChars))) >= 2
    /\ call.include_branding
    /\ Strip(call.project_name) = <<>>
    /\ Len(ret.filter_complex) >= 4

(***************************************************************************)
(* C10: the shape of the chain.                                            *)
(***************************************************************************)
Kind(node) ==
    IF node.filter = "null" THEN "pass-through"
    ELSE IF node.x = "brand_x" THEN "brand-prefix"
    ELSE IF node.x = "proj_x" THEN "project-name"
    ELSE "text-overlay"

\* The lines a text block is drawn from: none when the text is blank.
BlockLines(text) ==
    IF Strip(text) = <<>> THEN <<>>
    ELSE NonBlankLines(wrap_text_simple(text, MemeMaxChars))

Overlays(n) == [i \in 1..n |-> "text-overlay"]

\* One chain from [0:v], whose last node, and no other, writes [outv].
SingleChain(g) ==
    /\ Len(g) >= 1
    /\ g[1].in = InV
    /\ \A i \in 2..Len(g) : g[i].in = g[i - 1].out
    /\ \A i \in 1..Len(g) : (g[i].out = OutV) <=> (i = Len(g))

\* Node i of the chain draws line i of the top text, then of the bottom text.
DrawsLines(g, top, bot) ==
    /\ Len(g) >= Len(top) + Len(bot)
    /\ \A i \in 1..Len(top) : g[i].text = escape_drawtext(top[i])
    /\ \A i \in 1..Len(bot) : g[Len(top) + i].text = escape_drawtext(bot[i])

(***************************************************************************)
(* C10 (as claimed): after the text overlays the chain holds the           *)
(* brand-prefix and the project-name node when branding is on with a       *)
(* project name, and otherwise nothing but the closing pass-through.       *)
(***************************************************************************)
C10_ChainAsClaimed ==
    GraphBuilt =>
        LET g == ret.filter_complex
            top == BlockLines(call.top_text)
            bot == BlockLines(call.bottom_text)
        IN /\ SingleChain(g)
           /\ DrawsLines(g, top, bot)
           /\ [i \in 1..Len(g) |-> Kind(g[i])] =
                Overlays(Len(top)) \o Overlays(Len(bot))
                \o (IF call.include_branding /\ Strip(call.project_name) # <<>>
                    THEN <<"brand-prefix", "project-name">>
                    ELSE <<"pass-through">>)

(***************************************************************************)
(* C10 (amended): the graph is a single chain that consists, in order, of  *)
(* one text-overlay node per non-blank wrapped line of the top text, then  *)
(* one per non-blank wrapped line of the bottom text (none for a block     *)
(* whose text is empty after trimming), then, when branding is enabled,    *)
(* one brand-prefix node followed by one project-name node if the project  *)
(* name is non-empty after trimming and by a no-op pass-through node if it *)
(* is empty; when branding is disabled the chain ends in one no-op         *)
(* pass-through node.  Exactly one node, the last, writes the terminal     *)
(* label, so the label is defined in every case.                           *)
(***************************************************************************)
C10_ChainShape ==
    GraphBuilt =>
        LET g == ret.filter_complex
            top == BlockLines(call.top_text)
            bot == BlockLines(call.bottom_text)
        IN /\ SingleChain(g)
           /\ DrawsLines(g, top, bot)
           /\ [i \in 1..Len(g) |-> Kind(g[i])] =
                Overlays(Len(top)) \o Overlays(Len(bot))
                \o (IF ~call.include_branding THEN <<"pass-through">>
                    ELSE IF Strip(call.project_name) # <<>>
                    THEN <<"brand-prefix", "project-name">>
                    ELSE <<"brand-prefix", "pass-through">>)

\* Scenario A: a top text that wraps, no bottom text, branding with a project.
C10_Witness ==
    /\ GraphBuilt
    /\ Len(BlockLines(call.top_text)) > 1
    /\ call.bottom_text = <<>>
    /\ call.include_branding
    /\ Strip(call.project_name) # <<>>
    /\ Len(ret.filter_complex) = Len(BlockLines(call.top_text)) + 2
    /\ ret.filter_complex[Len(ret.filter_complex)].out = OutV

(***************************************************************************)
(* C2: for every combination of dialogue, music and an audio stream in the *)
(* base clip, mix_audio emits no mix node when at most one source is       *)
(* present (a stream copy, or the single source passed through), and one   *)
(* mix node over all the present sources, with duration=longest and        *)
(* dropout_transition=0, when two or more are; the original audio is a     *)
(* source only if the clip has an audio stream.                            *)
(***************************************************************************)
\* The sources present in a call of mix_audio, in the order of the code.
PresentSources(l) ==
    (IF l.has_audio THEN <<"orig">> ELSE <<>>)
    \o (IF l.mix.dialogue # None THEN <<"dlg">> ELSE <<>>)
    \o (IF l.mix.music # None THEN <<"msc">> ELSE <<>>)

MixNodes(plan) ==
    {i \in 1..Len(plan.filter_parts) :
        \E k \in 1..Len(plan.filter_parts[i].filters) :
            plan.filter_parts[i].filters[k] = "amix"}

C2_MixTopology ==
    \A r \in Reqs :
        (loc[r].mix.called /\ loc[r].plan.mode # "none") =>
            LET l == loc[r]
                plan == l.plan
                srcs == PresentSources(l)
                n == Len(plan.filter_parts)
            IN /\ Len(srcs) <= 1 =>
                    /\ MixNodes(plan) = {}
                    /\ \/ plan.mode = "copy"
                       \/ /\ plan.filter_parts[n].filters = <<"anull">>
                          /\ plan.filter_parts[n].ins = srcs
               /\ Len(srcs) >= 2 =>
                    /\ MixNodes(plan) = {n}
                    /\ plan.filter_parts[n].ins = srcs
                    /\ plan.filter_parts[n].inputs = Len(srcs)
                    /\ plan.filter_parts[n].duration = "longest"
                    /\ plan.filter_parts[n].dropout_transition = "0"
               /\ (\E i \in 1..n : plan.filter_parts[i].out = "orig") => l.has_audio

\* Dialogue and music over a clip that has an audio stream: a mix of three.
C2_Witness ==
    /\ loc[1].mix.called
    /\ loc[1].mix.dialogue # None /\ loc[1].mix.music # None /\ loc[1].has_audio
    /\ MixNodes(loc[1].plan) # {}
    /\ pc[1] = "returned"

(***************************************************************************)
(* C6: requests with no clip or with two clips.                            *)
(***************************************************************************)
Supplied(url) == Strip(url) # <<>>

MainSupplied(q) == Supplied(q.final_stitch_video) \/ Supplied(q.final_stitched_video)

ScenesSupplied(q) ==
    Cardinality({i \in 1..3 : Supplied(<<q.scene1_url, q.scene2_url, q.scene3_url>>[i])})

\* No clip at all, or two of the three scenes and no main video.
ZeroOrTwoClips(q) == ~MainSupplied(q) /\ ScenesSupplied(q) \in {0, 2}

(***************************************************************************)
(* C6 (as claimed): a request with 0 or 2 clips ends in the validation     *)
(* error, and no probe and no run of ffmpeg comes before it (the English   *)
(* font being in place).                                                   *)
(***************************************************************************)
C6_ValidationErrorAsClaimed ==
    \A r \in Reqs :
        (Done(r) /\ "english" \in fonts /\ ZeroOrTwoClips(inp[r])) =>
            /\ loc[r].outcome = "ValueError"
            /\ loc[r].probes = 0
            /\ loc[r].engine = 0

(***************************************************************************)
(* C6 (amended): a request with 0 or 2 clips ends in an error with no      *)
(* probe and no run of ffmpeg before it; the error is the validation error *)
(* unless the English font is missing or one of the downloads that predict *)
(* starts before it validates (dialogue, music, a scene) fails.            *)
(***************************************************************************)
C6_FailsBeforeAnyProbe ==
    \A r \in Reqs :
        (Done(r) /\ ZeroOrTwoClips(inp[r])) =>
            /\ pc[r] = "raised"
            /\ loc[r].probes = 0
            /\ loc[r].engine = 0
            /\ loc[r].graph = <<>>
            /\ loc[r].plan = NoPlan
            /\ \/ loc[r].outcome = "ValueError" /\ "english" \in fonts
               \/ loc[r].outcome = "RuntimeError: Missing font" /\ "english" \notin fonts
               \/ /\ loc[r].outcome = "download failed"
                  /\ "english" \in fonts
                  /\ \/ Supplied(inp[r].final_dialogue)
                     \/ Supplied(inp[r].final_music_url)
                     \/ ScenesSupplied(inp[r]) = 2

\* Two scenes and a dialogue track: the track is downloaded, then the
\* request is refused.
C6_Witness ==
    /\ pc[1] = "raised"
    /\ ScenesSupplied(inp[1]) = 2 /\ ~MainSupplied(inp[1])
    /\ loc[1].dialogue_p # None
    /\ loc[1].outcome = "ValueError"

(***************************************************************************)
(* C7 (as claimed): when predict returns or raises, the scratch directory  *)
(* it made is gone and no file of the request is left.                     *)
(***************************************************************************)
C7_ScratchReleased ==
    \A r \in Reqs :
        (Done(r) /\ loc[r].work # <<>>) =>
            /\ loc[r].work \notin dirs
            /\ \A f \in files : f.dir # loc[r].work

(***************************************************************************)
(* C8 (as claimed): two requests never share a scratch directory, so no    *)
(* file in the directory of one was written by the other.                  *)
(***************************************************************************)
C8_ScratchDirsDistinct ==
    \A r1 \in Reqs, r2 \in Reqs :
        (r1 # r2 /\ loc[r1].work # <<>> /\ loc[r2].work # <<>>) =>
            /\ loc[r1].work # loc[r2].work
            /\ \A f \in files : f.dir = loc[r1].work => f.by = r1

(***************************************************************************)
(* C9 (as claimed): in both modes a supplied dialogue track and a supplied *)
(* music track are inputs of the audio mix; the audio is a stream copy     *)
(* only when neither is supplied.                                          *)
(***************************************************************************)
PlanInputs(plan) == {plan.inputs[i] : i \in 1..Len(plan.inputs)}

C9_SuppliedTracksAreMixed ==
    \A r \in Reqs :
        pc[r] = "returned" =>
            LET q == inp[r]
                plan == loc[r].plan
            IN /\ Supplied(q.final_dialogue) =>
                    plan.mode = "filter" /\ <<"dialogue">> \in PlanInputs(plan)
               /\ Supplied(q.final_music_url) =>
                    plan.mode = "filter" /\ <<"music">> \in PlanInputs(plan)
               /\ (~Supplied(q.final_dialogue) /\ ~Supplied(q.final_music_url)) =>
                    plan.mode \in {"none", "copy"}

====
